---- MODULE Spec2Model ----
(***************************************************************************)
(* A model of filelist.py: command line parsing, selector resolution, the  *)
(* breadth-first traversal with its visit table, and the zip / delete      *)
(* operations.                                                             *)
(*                                                                         *)
(* Representation.  A Python string is a TLA+ string; Chars gives its      *)
(* characters for the code that looks inside a string (suffix extraction,  *)
(* number and timestamp parsing, path splitting).  A file name is a        *)
(* sequence of characters, a path is a sequence of file names (absolute,   *)
(* from the filesystem root).  A Python value of varying type (a dict      *)
(* value that is False, a string, a float, a tuple) is a tagged record so  *)
(* that Python's == and truthiness can be modelled as the interpreter      *)
(* computes them.                                                          *)
(***************************************************************************)
EXTENDS Integers, Sequences, FiniteSets, TLC

\* ---------------------------------------------------------------- bounds
\* longest command line (number of arguments after the script path)
MaxArgs == 3
\* the per-directory enqueue / listing counters saturate at this value
MaxCount == 3
\* the recorded depth of a queue entry saturates at this value
MaxDepth == 4

\* ------------------------------------------------------- command options
CMD_OPT_BEFORE == "-before"
CMD_OPT_AFTER == "-after"
CMD_OPT_MATCH == "-match"
CMD_OPT_BIGGER == "-bigger"
CMD_OPT_SMALLER == "-smaller"
CMD_OPT_DUPLCONT == "-duplcont"
CMD_OPT_DUPLNAME == "-duplname"
CMD_OPT_DELETE == "-delete"
CMD_OPT_ZIP == "-zip"
CMD_OPT_NOFILELIST == "-nofilelist"
CMD_OPT_STATS == "-stats"

\* option -> does it expect an argument?
SELECTOR_OPTS ==
  (CMD_OPT_BEFORE :> TRUE) @@ (CMD_OPT_AFTER :> TRUE) @@ (CMD_OPT_MATCH :> TRUE)
  @@ (CMD_OPT_BIGGER :> TRUE) @@ (CMD_OPT_SMALLER :> TRUE)

OPERATION_OPTS ==
  (CMD_OPT_DELETE :> FALSE) @@ (CMD_OPT_ZIP :> TRUE)

OUTPUT_MODE_OPTS ==
  (CMD_OPT_NOFILELIST :> FALSE) @@ (CMD_OPT_STATS :> FALSE)
  @@ (CMD_OPT_DUPLCONT :> FALSE) @@ (CMD_OPT_DUPLNAME :> FALSE)

\* ---------------------------------------------------------- Python values
\* t: "none" | "bool" | "str" | "num" | "dt" | "re"
\*   bool: b          str: s          num: n (a byte count), or with s = "inf"
\*                                    or "nan" the float that is no number
\*   dt: the tuple (datetime, has_time): date, tod, b        re: s (pattern)
PyVal(t, b, s, n, date, tod) ==
  [t |-> t, b |-> b, s |-> s, n |-> n, date |-> date, tod |-> tod]

PyNone == PyVal("none", FALSE, "", 0, 0, 0)
PyBool(b) == PyVal("bool", b, "", 0, 0, 0)
PyFalse == PyBool(FALSE)
PyTrue == PyBool(TRUE)
PyStr(s) == PyVal("str", FALSE, s, 0, 0, 0)
PyNum(n) == PyVal("num", FALSE, "", n, 0, 0)
\* float('inf') and float('nan')
PyInf == PyVal("num", FALSE, "inf", 1, 0, 0)
PyNan == PyVal("num", FALSE, "nan", 1, 0, 0)
PyDatetime(date, tod, has_time) == PyVal("dt", has_time, "", 0, date, tod)
PyRegex(s) == PyVal("re", FALSE, s, 0, 0, 0)

\* Python's  v == False : True for False itself and for the number zero
\* (bool is a subclass of int, 0.0 == False), False for None, any string,
\* any tuple and any compiled pattern.
PyEqFalse(v) ==
  CASE v.t = "bool" -> ~v.b
    [] v.t = "num" -> v.n = 0
    [] OTHER -> FALSE

\* Python's truth value of v, as `if v:` and `v and w` / `v or w` test it
PyTruthy(v) ==
  CASE v.t = "none" -> FALSE
    [] v.t = "bool" -> v.b
    [] v.t = "str" -> v.s # ""
    [] v.t = "num" -> v.n # 0
    [] OTHER -> TRUE

\* ------------------------------------------------------------ characters
\* the characters of the strings that occur in the modelled command lines
Chars(s) ==
  CASE s = "" -> <<>>
    [] s = "." -> <<".">>
    [] s = "0" -> <<"0">>
    [] s = "5" -> <<"5">>
    [] s = "k" -> <<"k">>
    [] s = "10k" -> <<"1", "0", "k">>
    [] s = "10K" -> <<"1", "0", "K">>
    [] s = "1m" -> <<"1", "m">>
    [] s = "1M" -> <<"1", "M">>
    [] s = "1g" -> <<"1", "g">>
    [] s = "1G" -> <<"1", "G">>
    [] s = "-1k" -> <<"-", "1", "k">>
    [] s = "5x" -> <<"5", "x">>
    [] s = "5b" -> <<"5", "b">>
    [] s = "inf" -> <<"i", "n", "f">>
    [] s = "nan" -> <<"n", "a", "n">>
    [] s = "0k" -> <<"0", "k">>
    [] s = "1K" -> <<"1", "K">>
    [] s = "-1" -> <<"-", "1">>
    [] s = "(" -> <<"(">>
    [] s = "f" -> <<"f">>
    [] s = "z" -> <<"z">>
    [] s = ".*" -> <<".", "*">>
    [] s = "/o" -> <<"/", "o">>
    [] s = "/r" -> <<"/", "r">>
    [] s = "/x" -> <<"/", "x">>
    [] s = "/r/d" -> <<"/", "r", "/", "d">>
    [] s = "/r/e" -> <<"/", "r", "/", "e">>
    [] s = "/r/l" -> <<"/", "r", "/", "l">>
    [] s = "/r/f" -> <<"/", "r", "/", "f">>
    [] s = "/o/z" -> <<"/", "o", "/", "z">>
    [] s = "20230101" -> <<"2", "0", "2", "3", "0", "1", "0", "1">>
    [] s = "20230601" -> <<"2", "0", "2", "3", "0", "6", "0", "1">>
    [] s = "20230101T120000" ->
         <<"2", "0", "2", "3", "0", "1", "0", "1", "T", "1", "2", "0", "0", "0", "0">>
    [] s = "20230601T120000" ->
         <<"2", "0", "2", "3", "0", "6", "0", "1", "T", "1", "2", "0", "0", "0", "0">>
    [] s = "20231301" -> <<"2", "0", "2", "3", "1", "3", "0", "1">>
    [] s = "-before" -> <<"-", "b", "e", "f", "o", "r", "e">>
    [] s = "-after" -> <<"-", "a", "f", "t", "e", "r">>
    [] s = "-match" -> <<"-", "m", "a", "t", "c", "h">>
    [] s = "-bigger" -> <<"-", "b", "i", "g", "g", "e", "r">>
    [] s = "-smaller" -> <<"-", "s", "m", "a", "l", "l", "e", "r">>
    [] s = "-duplcont" -> <<"-", "d", "u", "p", "l", "c", "o", "n", "t">>
    [] s = "-duplname" -> <<"-", "d", "u", "p", "l", "n", "a", "m", "e">>
    [] s = "-delete" -> <<"-", "d", "e", "l", "e", "t", "e">>
    [] s = "-zip" -> <<"-", "z", "i", "p">>
    [] s = "-nofilelist" -> <<"-", "n", "o", "f", "i", "l", "e", "l", "i", "s", "t">>
    [] s = "-stats" -> <<"-", "s", "t", "a", "t", "s">>

Digits == <<"0", "1", "2", "3", "4", "5", "6", "7", "8", "9">>

IsDigit(c) == \E i \in 1..10 : Digits[i] = c

DigitVal(c) == (CHOOSE i \in 1..10 : Digits[i] = c) - 1

\* str.lower() on one character, for the letters that occur
Lower(c) ==
  CASE c = "K" -> "k"
    [] c = "M" -> "m"
    [] c = "G" -> "g"
    [] OTHER -> c

\* the value of a non-empty all-digit character sequence
RECURSIVE DigitsVal(_)
DigitsVal(cs) ==
  IF cs = <<>> THEN 0
  ELSE 10 * DigitsVal(SubSeq(cs, 1, Len(cs) - 1)) + DigitVal(cs[Len(cs)])

AllDigits(cs) == cs # <<>> /\ \A i \in 1..Len(cs) : IsDigit(cs[i])


\* ------------------------------------------------------------------ paths
Front(p) == SubSeq(p, 1, Len(p) - 1)

Last(p) == p[Len(p)]

\* os.path.basename of an absolute path
basename(p) == IF p = <<>> THEN <<>> ELSE Last(p)

\* os.path.join(cur_dir, name) for a name returned by os.listdir
join(cur_dir, name) == Append(cur_dir, name)

\* the components of a path string: split at "/", empty and "." components
\* dropped as os.path.normpath drops them (".." does not occur)
RECURSIVE SplitPath(_, _)
SplitPath(cs, cur) ==
  LET flush == IF cur = <<>> \/ cur = <<".">> THEN <<>> ELSE <<cur>>
  IN IF cs = <<>> THEN flush
     ELSE IF Head(cs) = "/" THEN flush \o SplitPath(Tail(cs), <<>>)
     ELSE SplitPath(Tail(cs), Append(cur, Head(cs)))

\* os.path.abspath(s) in the working directory cwd
abspath(s, cwd) ==
  LET cs == Chars(s)
  IN IF cs # <<>> /\ Head(cs) = "/" THEN SplitPath(cs, <<>>)
     ELSE cwd \o SplitPath(cs, <<>>)

\* ------------------------------------------------------------- filesystem
\* A filesystem maps the canonical path of every entry to its node.
\*   dir:  list   = the names os.listdir returns, in the order it returns them
\*   file: size, date, tod (modification date and second of the day), content
\*   link: target = the canonical path the symbolic link resolves to
\*   err:  the system call that fails on the entry: "" (none), "stat" (stat
\*         fails, the entry is in a directory without search permission),
\*         "list" (listdir fails), "open" (open fails), "read" (read fails)
Node(kind, list, size, date, tod, content, target) ==
  [kind |-> kind, list |-> list, size |-> size, date |-> date, tod |-> tod,
   content |-> content, target |-> target, err |-> ""]

DirNode(list) == Node("dir", list, 0, 0, 0, "", <<>>)
FileNode(size, date, tod, content) == Node("file", <<>>, size, date, tod, content, <<>>)
LinkNode(target) == Node("link", <<>>, 0, 0, 0, "", target)

\* os.path.realpath: every symbolic link on the way replaced by its target
RECURSIVE realpath(_, _)
realpath(fsys, p) ==
  IF p = <<>> THEN <<>>
  ELSE \* (the parent is resolved once: q ranges over a one-element set)
       CHOOSE r \in { IF q \in DOMAIN fsys /\ fsys[q].kind = "link" THEN fsys[q].target ELSE q :
                        q \in { Append(realpath(fsys, Front(p)), Last(p)) } } : TRUE

\* os.path.exists, and with it isdir and isfile, answer False when stat fails
exists(fsys, p) == realpath(fsys, p) \in DOMAIN fsys /\ fsys[realpath(fsys, p)].err # "stat"

\* os.path.isdir / os.path.isfile follow symbolic links
isdir(fsys, p) == exists(fsys, p) /\ fsys[realpath(fsys, p)].kind = "dir"

isfile(fsys, p) == exists(fsys, p) /\ fsys[realpath(fsys, p)].kind = "file"

\* os.path.islink looks at the last component itself
islink(fsys, p) ==
  /\ p # <<>>
  /\ LET q == Append(realpath(fsys, Front(p)), Last(p))
     IN q \in DOMAIN fsys /\ fsys[q].kind = "link"

listdir(fsys, p) == fsys[realpath(fsys, p)].list

getsize(fsys, p) == fsys[realpath(fsys, p)].size

\* the node os.stat(p) describes
stat(fsys, p) == fsys[realpath(fsys, p)]

\* ---- the filesystems of the model
nR == <<"r">>
nD == <<"d">>
nE == <<"e">>
nF == <<"f">>
nL == <<"l">>
nM == <<"m">>
nN == <<"n">>
nO == <<"o">>
nZ == <<"z">>

pRoot == <<nR>>
pD == <<nR, nD>>
pE == <<nR, nE>>
pO == <<nO>>

\* "this link does not exist" (no entry has an empty name)
NoLink == << <<>> >>

Reverse(s) == [i \in 1..Len(s) |-> s[Len(s) + 1 - i]]

\*   /r        d/ e/ f  [l -> lt]
\*   /r/d      f  [m -> mt]
\*   /r/e      f  [n -> nt]
\*   /o        z
\* rev: os.listdir returns every directory's names in the opposite order
MkFS(lt, mt, nt, rev) ==
  LET ord(s) == IF rev THEN Reverse(s) ELSE s
      opt(name, t) == IF t = NoLink THEN <<>> ELSE <<name>>
      links == { x \in { <<join(pRoot, nL), lt>>, <<join(pD, nM), mt>>, <<join(pE, nN), nt>> } :
                   x[2] # NoLink }
      linkFs == [p \in { x[1] : x \in links } |->
                   LinkNode((CHOOSE x \in links : x[1] = p)[2])]
  IN (<<>> :> DirNode(<<nR, nO>>))
     @@ (pRoot :> DirNode(ord(<<nD, nE, nF>> \o opt(nL, lt))))
     @@ (pD :> DirNode(ord(<<nF>> \o opt(nM, mt))))
     @@ (pE :> DirNode(ord(<<nF>> \o opt(nN, nt))))
     @@ (join(pRoot, nF) :> FileNode(1000, 20230101, 0, "A"))
     @@ (join(pD, nF) :> FileNode(50, 20230601, 43200, "A"))
     @@ (join(pE, nF) :> FileNode(0, 20230601, 0, "B"))
     @@ (pO :> DirNode(<<nZ>>))
     @@ (join(pO, nZ) :> FileNode(7, 20230101, 43200, "C"))
     @@ linkFs

\* the filesystem without symbolic links
PlainFS == MkFS(NoLink, NoLink, NoLink, FALSE)

\* the filesystem fsys with the system call err failing on the entry p
Failing(fsys, p, err) == [fsys EXCEPT ![p].err = err]

\* the filesystems on which one system call fails
FailingFileSystems ==
  { Failing(PlainFS, pD, "list"), Failing(PlainFS, join(pD, nF), "stat"),
    Failing(PlainFS, join(pD, nF), "open"), Failing(PlainFS, join(pE, nF), "read") }

FileSystems ==
  { MkFS(lt, mt, nt, rev) :
      lt \in {NoLink, pRoot, pD, pO}, mt \in {NoLink, pRoot, pD, pE},
      nt \in {NoLink, pD, pE}, rev \in BOOLEAN }


\* -------------------------------------------------------------- parse_args
\* the three result dictionaries, keyed by option; a missing key is a key
\* outside the DOMAIN
EmptyDict == [o \in {} |-> PyFalse]

DictSet(d, k, v) == [o \in DOMAIN d \cup {k} |-> IF o = k THEN v ELSE d[o]]

\* "key-safety": every option of opt_dict gets the default False
WithDefaults(opt_dict, res_dict) ==
  [o \in DOMAIN opt_dict \cup DOMAIN res_dict |->
     IF o \in DOMAIN res_dict THEN res_dict[o] ELSE PyFalse]

ParseResult(ret, selectors, operations, output_modes, paths) ==
  [ret |-> ret, selectors |-> selectors, operations |-> operations,
   output_modes |-> output_modes, paths |-> paths]

\* what parse_args returns without a tuple: None or False
ParseFailure(ret) == ParseResult(ret, EmptyDict, EmptyDict, EmptyDict, <<>>)

\* the checks after the loop
ParseConflicts(selectors, operations, output_modes, paths) ==
  LET duplcont == PyTruthy(output_modes[CMD_OPT_DUPLCONT])
      duplname == PyTruthy(output_modes[CMD_OPT_DUPLNAME])
      nofilelist == PyTruthy(output_modes[CMD_OPT_NOFILELIST])
      delete == PyTruthy(operations[CMD_OPT_DELETE])
      zip == PyTruthy(operations[CMD_OPT_ZIP])
  IN IF duplcont /\ duplname THEN ParseFailure(PyNone)
     ELSE IF nofilelist /\ (duplcont \/ duplname) THEN ParseFailure(PyNone)
     ELSE IF (duplcont \/ duplname) /\ (delete \/ zip) THEN ParseFailure(PyNone)
     ELSE IF delete /\ zip THEN ParseFailure(PyNone)
     ELSE ParseResult(PyTrue, selectors, operations, output_modes, paths)

\* the while loop, from index i (argv[1] is the script path)
RECURSIVE ParseLoop(_, _, _, _, _, _, _)

\* one round of the loop without the test that the option was met before
ParseLoop_NoDuplicateTest(argv, i, selectors, operations, output_modes, paths, expect_path) ==
  IF i > Len(argv)
  THEN ParseConflicts(WithDefaults(SELECTOR_OPTS, selectors),
                      WithDefaults(OPERATION_OPTS, operations),
                      WithDefaults(OUTPUT_MODE_OPTS, output_modes), paths)
  ELSE
    LET arg == argv[i]
        which == IF arg \in DOMAIN SELECTOR_OPTS THEN "selectors"
                 ELSE IF arg \in DOMAIN OPERATION_OPTS THEN "operations"
                 ELSE IF arg \in DOMAIN OUTPUT_MODE_OPTS THEN "output_modes"
                 ELSE "path"
        expects_arg == CASE which = "selectors" -> SELECTOR_OPTS[arg]
                         [] which = "operations" -> OPERATION_OPTS[arg]
                         [] which = "output_modes" -> OUTPUT_MODE_OPTS[arg]
                         [] OTHER -> FALSE
        val == IF expects_arg THEN PyStr(argv[i + 1]) ELSE PyTrue
        step == IF expects_arg THEN 2 ELSE 1
    IN IF expect_path
       THEN ParseLoop(argv, i + 1, selectors, operations, output_modes,
                      Append(paths, arg), TRUE)
       ELSE IF which = "path"
       THEN ParseLoop(argv, i, selectors, operations, output_modes, paths, TRUE)
       ELSE IF expects_arg /\ i + 1 > Len(argv) THEN ParseFailure(PyFalse)
       ELSE ParseLoop(argv, i + step,
                      IF which = "selectors" THEN DictSet(selectors, arg, val) ELSE selectors,
                      IF which = "operations" THEN DictSet(operations, arg, val) ELSE operations,
                      IF which = "output_modes" THEN DictSet(output_modes, arg, val)
                      ELSE output_modes,
                      paths, FALSE)

\* one round of the loop with expect_path not kept: the argument after a
\* path is looked at as an option again
ParseLoop_PathModeNotKept(argv, i, selectors, operations, output_modes, paths, expect_path) ==
  IF i > Len(argv)
  THEN ParseConflicts(WithDefaults(SELECTOR_OPTS, selectors),
                      WithDefaults(OPERATION_OPTS, operations),
                      WithDefaults(OUTPUT_MODE_OPTS, output_modes), paths)
  ELSE
    LET arg == argv[i]
        which == IF arg \in DOMAIN SELECTOR_OPTS THEN "selectors"
                 ELSE IF arg \in DOMAIN OPERATION_OPTS THEN "operations"
                 ELSE IF arg \in DOMAIN OUTPUT_MODE_OPTS THEN "output_modes"
                 ELSE "path"
        expects_arg == CASE which = "selectors" -> SELECTOR_OPTS[arg]
                         [] which = "operations" -> OPERATION_OPTS[arg]
                         [] which = "output_modes" -> OUTPUT_MODE_OPTS[arg]
                         [] OTHER -> FALSE
        res_dict == CASE which = "selectors" -> selectors
                      [] which = "operations" -> operations
                      [] OTHER -> output_modes
        val == IF expects_arg THEN PyStr(argv[i + 1]) ELSE PyTrue
        step == IF expects_arg THEN 2 ELSE 1
    IN IF expect_path
       THEN ParseLoop(argv, i + 1, selectors, operations, output_modes,
                      Append(paths, arg), FALSE)
       ELSE IF which = "path"
       THEN ParseLoop(argv, i, selectors, operations, output_modes, paths, TRUE)
       ELSE IF arg \in DOMAIN res_dict THEN ParseFailure(PyNone)
       ELSE IF expects_arg /\ i + 1 > Len(argv) THEN ParseFailure(PyFalse)
       ELSE ParseLoop(argv, i + step,
                      IF which = "selectors" THEN DictSet(selectors, arg, val) ELSE selectors,
                      IF which = "operations" THEN DictSet(operations, arg, val) ELSE operations,
                      IF which = "output_modes" THEN DictSet(output_modes, arg, val)
                      ELSE output_modes,
                      paths, FALSE)

ParseLoop(argv, i, selectors, operations, output_modes, paths, expect_path) ==
  IF i > Len(argv)
  THEN ParseConflicts(WithDefaults(SELECTOR_OPTS, selectors),
                      WithDefaults(OPERATION_OPTS, operations),
                      WithDefaults(OUTPUT_MODE_OPTS, output_modes), paths)
  ELSE
    LET arg == argv[i]
        which == IF arg \in DOMAIN SELECTOR_OPTS THEN "selectors"
                 ELSE IF arg \in DOMAIN OPERATION_OPTS THEN "operations"
                 ELSE IF arg \in DOMAIN OUTPUT_MODE_OPTS THEN "output_modes"
                 ELSE "path"
        expects_arg == CASE which = "selectors" -> SELECTOR_OPTS[arg]
                         [] which = "operations" -> OPERATION_OPTS[arg]
                         [] which = "output_modes" -> OUTPUT_MODE_OPTS[arg]
                         [] OTHER -> FALSE
        res_dict == CASE which = "selectors" -> selectors
                      [] which = "operations" -> operations
                      [] OTHER -> output_modes
        val == IF expects_arg THEN PyStr(argv[i + 1]) ELSE PyTrue
        step == IF expects_arg THEN 2 ELSE 1
    IN IF expect_path
       THEN ParseLoop(argv, i + 1, selectors, operations, output_modes,
                      Append(paths, arg), TRUE)
       ELSE IF which = "path"
       THEN ParseLoop(argv, i, selectors, operations, output_modes, paths, TRUE)
       ELSE IF arg \in DOMAIN res_dict THEN ParseFailure(PyNone)
       ELSE IF expects_arg /\ i + 1 > Len(argv) THEN ParseFailure(PyFalse)
       ELSE ParseLoop(argv, i + step,
                      IF which = "selectors" THEN DictSet(selectors, arg, val) ELSE selectors,
                      IF which = "operations" THEN DictSet(operations, arg, val) ELSE operations,
                      IF which = "output_modes" THEN DictSet(output_modes, arg, val)
                      ELSE output_modes,
                      paths, FALSE)

parse_args(argv) == ParseLoop(argv, 2, EmptyDict, EmptyDict, EmptyDict, <<>>, FALSE)

\* ------------------------------------------------------ selector resolution
DATETIME_LEN == 15

DaysIn(y, m) ==
  IF m \in {4, 6, 9, 11} THEN 30
  ELSE IF m # 2 THEN 31
  ELSE IF y % 4 = 0 /\ (y % 100 # 0 \/ y % 400 = 0) THEN 29 ELSE 28

\* datetime.strptime(val, '%Y%m%d') for a string of exactly eight characters;
\* the result is [ok, date, tod].  (strptime also takes one-digit months and
\* days; the modelled timestamps are full width or not numeric at all.)
ParseDate(cs) ==
  LET bad == [ok |-> FALSE, date |-> 0, tod |-> 0]
  IN IF Len(cs) # 8 \/ ~AllDigits(cs) THEN bad
     ELSE LET y == DigitsVal(SubSeq(cs, 1, 4))
              m == DigitsVal(SubSeq(cs, 5, 6))
              d == DigitsVal(SubSeq(cs, 7, 8))
          IN IF y >= 1 /\ m \in 1..12 /\ d >= 1 /\ d <= DaysIn(y, m)
             THEN [ok |-> TRUE, date |-> DigitsVal(cs), tod |-> 0]
             ELSE bad

\* datetime.strptime(val, '%Y%m%dT%H%M%S') for a string of fifteen characters
ParseDatetime(cs) ==
  LET bad == [ok |-> FALSE, date |-> 0, tod |-> 0]
      day == ParseDate(SubSeq(cs, 1, 8))
  IN IF Len(cs) # 15 \/ cs[9] # "T" \/ ~AllDigits(SubSeq(cs, 10, 15)) \/ ~day.ok THEN bad
     ELSE LET h == DigitsVal(SubSeq(cs, 10, 11))
              mi == DigitsVal(SubSeq(cs, 12, 13))
              sec == DigitsVal(SubSeq(cs, 14, 15))
          IN IF h <= 23 /\ mi <= 59 /\ sec <= 59
             THEN [ok |-> TRUE, date |-> day.date, tod |-> h * 3600 + mi * 60 + sec]
             ELSE bad

\* one selector value after the try block: [ok, val]
ResolveDatetime(val) ==
  IF PyEqFalse(val) THEN [ok |-> TRUE, val |-> val]
  ELSE LET cs == Chars(val.s)
           r == IF Len(cs) = DATETIME_LEN THEN ParseDatetime(cs) ELSE ParseDate(cs)
       IN IF r.ok
          THEN [ok |-> TRUE, val |-> PyDatetime(r.date, r.tod, Len(cs) = DATETIME_LEN)]
          ELSE [ok |-> FALSE, val |-> PyFalse]

\* the loop of resolve_datetime_selectors over opts[i..], stopping at the
\* first value that does not parse: [ok, selectors]
RECURSIVE ResolveDatetimeFrom(_, _, _)
ResolveDatetimeFrom(opts, i, selectors) ==
  IF i > Len(opts) THEN [ok |-> TRUE, selectors |-> selectors]
  ELSE LET r == ResolveDatetime(selectors[opts[i]])
           next == [selectors EXCEPT ![opts[i]] = r.val]
       IN IF r.ok THEN ResolveDatetimeFrom(opts, i + 1, next)
          ELSE [ok |-> FALSE, selectors |-> next]

resolve_datetime_selectors(selectors) ==
  ResolveDatetimeFrom(<<CMD_OPT_BEFORE, CMD_OPT_AFTER>>, 1, selectors)

MULTIPLIERS == ("k" :> 1024) @@ ("m" :> 1024 * 1024) @@ ("g" :> 1024 * 1024 * 1024)

\* float(num_lit_str) for an optional sign followed by digits or by one of
\* the words float takes, "inf" and "nan": [ok, val]; ValueError for the rest.
\* (No decimal point, exponent or blank occurs in the model; of the signed
\* words only the unsigned ones do.)
ParseFloat(cs) ==
  LET signed == cs # <<>> /\ Head(cs) \in {"-", "+"}
      body == IF signed THEN Tail(cs) ELSE cs
  IN IF cs = <<"i", "n", "f">> THEN [ok |-> TRUE, val |-> PyInf]
     ELSE IF cs = <<"n", "a", "n">> THEN [ok |-> TRUE, val |-> PyNan]
     ELSE IF ~AllDigits(body) THEN [ok |-> FALSE, val |-> PyNum(0)]
     ELSE [ok |-> TRUE,
           val |-> PyNum(IF signed /\ Head(cs) = "-" THEN 0 - DigitsVal(body)
                         ELSE DigitsVal(body))]

\* float * int: inf and nan stay what they are
NumTimes(v, mult) == IF v.s = "" THEN PyNum(v.n * mult) ELSE v

\* the comparisons of a float with an int: with nan every one is False
NumLess(v, k) == v.s = "" /\ v.n < k
NumGE(v, k) == v.s = "inf" \/ (v.s = "" /\ v.n >= k)
NumLE(v, k) == v.s = "" /\ v.n <= k

\* one size selector value: [ok, val]
ResolveSize(val) ==
  IF PyEqFalse(val) THEN [ok |-> TRUE, val |-> val]
  ELSE LET cs == Chars(val.s)
       IN IF Len(cs) = 0 THEN [ok |-> FALSE, val |-> val]
          ELSE LET last == Lower(cs[Len(cs)])
                   has_suffix == last \in DOMAIN MULTIPLIERS
                   num_lit_str == IF has_suffix THEN Front(cs) ELSE cs
                   mult == IF has_suffix THEN MULTIPLIERS[last] ELSE 1
                   f == ParseFloat(num_lit_str)
               IN IF ~f.ok THEN [ok |-> FALSE, val |-> val]
                  ELSE [ok |-> ~NumLess(NumTimes(f.val, mult), 0),
                        val |-> NumTimes(f.val, mult)]

\* the loop of resolve_size_selectors over opts[i..], stopping at the first
\* value that is not a size: [ok, selectors]
RECURSIVE ResolveSizeFrom(_, _, _)
ResolveSizeFrom(opts, i, selectors) ==
  IF i > Len(opts) THEN [ok |-> TRUE, selectors |-> selectors]
  ELSE LET r == ResolveSize(selectors[opts[i]])
           next == [selectors EXCEPT ![opts[i]] = r.val]
       IN IF r.ok THEN ResolveSizeFrom(opts, i + 1, next)
          ELSE [ok |-> FALSE, selectors |-> next]

resolve_size_selectors(selectors) ==
  ResolveSizeFrom(<<CMD_OPT_SMALLER, CMD_OPT_BIGGER>>, 1, selectors)

\* ---- regular expressions: a pattern is a sequence of items, each a literal
\* character or "." optionally followed by "*"; "(" , ")" and a leading "*"
\* make re.compile fail in the modelled patterns
RegexValid(cs) ==
  /\ \A i \in 1..Len(cs) : cs[i] \notin {"(", ")"}
  /\ \A i \in 1..Len(cs) : cs[i] = "*" => (i > 1 /\ cs[i - 1] # "*")

\* re.compile('(pattern)\Z').match(name): the whole name matches
RECURSIVE RegexFullMatch(_, _)
RegexFullMatch(pat, name) ==
  IF pat = <<>> THEN name = <<>>
  ELSE LET one(c) == Head(pat) = "." \/ Head(pat) = c
       IN IF Len(pat) >= 2 /\ pat[2] = "*"
          THEN \/ RegexFullMatch(SubSeq(pat, 3, Len(pat)), name)
               \/ (name # <<>> /\ one(Head(name)) /\ RegexFullMatch(pat, Tail(name)))
          ELSE name # <<>> /\ one(Head(name)) /\ RegexFullMatch(Tail(pat), Tail(name))

resolve_match_selector(selectors) ==
  LET val == selectors[CMD_OPT_MATCH]
  IN IF PyEqFalse(val) THEN [ok |-> TRUE, selectors |-> selectors]
     ELSE IF ~RegexValid(Chars(val.s)) THEN [ok |-> FALSE, selectors |-> selectors]
     ELSE [ok |-> TRUE,
           selectors |-> [selectors EXCEPT ![CMD_OPT_MATCH] = PyRegex(val.s)]]

\* the condition of main: datetime and size and match, short-circuit
ResolveSelectors(selectors) ==
  LET r1 == resolve_datetime_selectors(selectors)
      r2 == resolve_size_selectors(r1.selectors)
      r3 == resolve_match_selector(r2.selectors)
  IN IF ~r1.ok THEN r1 ELSE IF ~r2.ok THEN r2 ELSE r3

\* resolve_paths: [ok, paths]; paths are made absolute in place up to and
\* including the first one that is no directory
RECURSIVE ResolvePathsFrom(_, _, _, _)
ResolvePathsFrom(fsys, cwd, paths, i) ==
  IF i > Len(paths) THEN [ok |-> TRUE, paths |-> <<>>]
  ELSE LET p == abspath(paths[i], cwd)
       IN IF ~isdir(fsys, p) THEN [ok |-> FALSE, paths |-> <<p>>]
          ELSE LET rest == ResolvePathsFrom(fsys, cwd, paths, i + 1)
               IN [ok |-> rest.ok, paths |-> <<p>> \o rest.paths]

resolve_paths(fsys, cwd, paths) ==
  ResolvePathsFrom(fsys, cwd, IF Len(paths) = 0 THEN <<".">> ELSE paths, 1)


\* ------------------------------------------------------------------ select
\* datetime comparison a >= b on (date, second of the day)
DtGE(a_date, a_tod, b_date, b_tod) ==
  a_date > b_date \/ (a_date = b_date /\ a_tod >= b_tod)

\* select with its -after check left out
select_WithoutAfter(fsys, file_path, selectors) ==
  LET file_name == basename(file_path)
      file_stats == stat(fsys, file_path)
      match == selectors[CMD_OPT_MATCH]
      before == selectors[CMD_OPT_BEFORE]
      smaller == selectors[CMD_OPT_SMALLER]
      bigger == selectors[CMD_OPT_BIGGER]
      modif_tod(bound) == IF bound.b THEN file_stats.tod ELSE 0
  IN IF ~PyEqFalse(match) /\ ~RegexFullMatch(Chars(match.s), file_name) THEN FALSE
     ELSE IF ~PyEqFalse(before)
             /\ ~DtGE(before.date, before.tod, file_stats.date, modif_tod(before))
     THEN FALSE
     ELSE IF ~PyEqFalse(smaller) /\ ~NumGE(smaller, file_stats.size) THEN FALSE
     ELSE IF ~PyEqFalse(bigger) /\ ~NumLE(bigger, file_stats.size) THEN FALSE
     ELSE TRUE

\* select comparing the modification instant itself with every bound
select_NoTruncation(fsys, file_path, selectors) ==
  LET file_name == basename(file_path)
      file_stats == stat(fsys, file_path)
      match == selectors[CMD_OPT_MATCH]
      before == selectors[CMD_OPT_BEFORE]
      after == selectors[CMD_OPT_AFTER]
      smaller == selectors[CMD_OPT_SMALLER]
      bigger == selectors[CMD_OPT_BIGGER]
  IN IF ~PyEqFalse(match) /\ ~RegexFullMatch(Chars(match.s), file_name) THEN FALSE
     ELSE IF ~PyEqFalse(before)
             /\ ~DtGE(before.date, before.tod, file_stats.date, file_stats.tod)
     THEN FALSE
     ELSE IF ~PyEqFalse(after)
             /\ ~DtGE(file_stats.date, file_stats.tod, after.date, after.tod)
     THEN FALSE
     ELSE IF ~PyEqFalse(smaller) /\ ~NumGE(smaller, file_stats.size) THEN FALSE
     ELSE IF ~PyEqFalse(bigger) /\ ~NumLE(bigger, file_stats.size) THEN FALSE
     ELSE TRUE

select(fsys, file_path, selectors) ==
  LET file_name == basename(file_path)
      file_stats == stat(fsys, file_path)
      match == selectors[CMD_OPT_MATCH]
      before == selectors[CMD_OPT_BEFORE]
      after == selectors[CMD_OPT_AFTER]
      smaller == selectors[CMD_OPT_SMALLER]
      bigger == selectors[CMD_OPT_BIGGER]
      \* modif_datetime, or modif_date when the option lacks the time of day
      modif_tod(bound) == IF bound.b THEN file_stats.tod ELSE 0
  IN IF ~PyEqFalse(match) /\ ~RegexFullMatch(Chars(match.s), file_name) THEN FALSE
     ELSE IF ~PyEqFalse(before)
             /\ ~DtGE(before.date, before.tod, file_stats.date, modif_tod(before))
     THEN FALSE
     ELSE IF ~PyEqFalse(after)
             /\ ~DtGE(file_stats.date, modif_tod(after), after.date, after.tod)
     THEN FALSE
     ELSE IF ~PyEqFalse(smaller) /\ ~NumGE(smaller, file_stats.size) THEN FALSE
     ELSE IF ~PyEqFalse(bigger) /\ ~NumLE(bigger, file_stats.size) THEN FALSE
     ELSE TRUE


\* ---------------------------------------------------------------- traverse
\* a saturating counter (observation only: how often something happened)
Inc(c) == IF c < MaxCount THEN c + 1 ELSE c

Bump(h, p) == IF p \in DOMAIN h THEN [h EXCEPT ![p] = Inc(@)] ELSE h

\* one line of standard output
Line(kind, path, text) == [kind |-> kind, path |-> path, text |-> text]

PathLine(p) == Line("path", p, "")
Message(text) == Line("msg", <<>>, text)

\* The order of the breadth-first search (observation only):
\*   qd[i]      the depth at which the queue entry q[i] was discovered
\*   level      the depth of the directory being listed
\*   first[d]   the depth at which the directory with canonical path d was
\*              first discovered
\*   last_list  first[.] of the directory listed last
\*   last_emit  first[.] of the directory of the file printed last
Bfs(qd, level, first, last_list, last_emit) ==
  [qd |-> qd, level |-> level, first |-> first, last_list |-> last_list,
   last_emit |-> last_emit]

Deeper(level) == IF level < MaxDepth THEN level + 1 ELSE level

\* the directory with canonical path d is put in the queue
Discover(b, d) ==
  [b EXCEPT !.qd = Append(@, Deeper(b.level)),
            !.first = IF d \in DOMAIN @ THEN @ ELSE DictSet(@, d, Deeper(b.level))]

\* The state traverse works on:
\*   q, visit_table, selected, stats, out  as in the code
\*   enq[d], listed[d], evals[f]: how often the directory with canonical path
\*   d was put in the queue / listed, and the file with canonical path f was
\*   counted and given to select
\*   bfs: the order of the search
TState(q, visit_table, selected, stats, out, enq, listed, evals, bfs) ==
  [q |-> q, visit_table |-> visit_table, selected |-> selected, stats |-> stats,
   out |-> out, enq |-> enq, listed |-> listed, evals |-> evals, bfs |-> bfs]

\* ProcessItem counting a selected file as listed also when the listing is off
ProcessItem_CountsUnlisted(fsys, selectors, nofilelist, cur_dir, name, T) ==
  LET cur_item == join(cur_dir, name)
  IN IF cur_item \in DOMAIN T.visit_table THEN T
     ELSE IF isdir(fsys, cur_item)
     THEN LET item == IF islink(fsys, cur_item) THEN realpath(fsys, cur_item) ELSE cur_item
          IN [T EXCEPT !.q = Append(@, item),
                       !.visit_table = DictSet(@, item, TRUE),
                       !.enq = Bump(@, realpath(fsys, item)),
                       !.bfs = Discover(@, realpath(fsys, item))]
     ELSE IF isfile(fsys, cur_item)
     THEN LET file_size == getsize(fsys, cur_item)
              sel == select(fsys, cur_item, selectors)
              listing == sel /\ ~nofilelist
          IN [T EXCEPT !.stats = [@ EXCEPT !.visit_count = @ + 1,
                                           !.visit_size = @ + file_size,
                                           !.list_count = IF sel THEN @ + 1 ELSE @,
                                           !.list_size = IF sel THEN @ + file_size ELSE @],
                       !.visit_table = DictSet(@, cur_item, FALSE),
                       !.selected = IF sel THEN @ \cup {cur_item} ELSE @,
                       !.out = IF listing THEN Append(@, PathLine(cur_item)) ELSE @,
                       !.evals = Bump(@, realpath(fsys, cur_item)),
                       !.bfs = IF listing
                               THEN [@ EXCEPT !.last_emit = T.bfs.first[realpath(fsys, cur_dir)]]
                               ELSE @]
     ELSE T

\* the body of  for name in dir_cont
ProcessItem(fsys, selectors, nofilelist, cur_dir, name, T) ==
  LET cur_item == join(cur_dir, name)
  IN IF cur_item \in DOMAIN T.visit_table THEN T
     ELSE IF isdir(fsys, cur_item)
     THEN LET item == IF islink(fsys, cur_item) THEN realpath(fsys, cur_item) ELSE cur_item
          IN [T EXCEPT !.q = Append(@, item),
                       !.visit_table = DictSet(@, item, TRUE),
                       !.enq = Bump(@, realpath(fsys, item)),
                       !.bfs = Discover(@, realpath(fsys, item))]
     ELSE IF isfile(fsys, cur_item)
     THEN LET file_size == getsize(fsys, cur_item)
              sel == select(fsys, cur_item, selectors)
              listing == sel /\ ~nofilelist
          IN [T EXCEPT !.stats = [@ EXCEPT !.visit_count = @ + 1,
                                           !.visit_size = @ + file_size,
                                           !.list_count = IF listing THEN @ + 1 ELSE @,
                                           !.list_size = IF listing THEN @ + file_size ELSE @],
                       !.visit_table = DictSet(@, cur_item, FALSE),
                       !.selected = IF sel THEN @ \cup {cur_item} ELSE @,
                       !.out = IF listing THEN Append(@, PathLine(cur_item)) ELSE @,
                       !.evals = Bump(@, realpath(fsys, cur_item)),
                       !.bfs = IF listing
                               THEN [@ EXCEPT !.last_emit = T.bfs.first[realpath(fsys, cur_dir)]]
                               ELSE @]
     ELSE T

\* cur_dir = q.popleft()
PopLeft(fsys, T) ==
  [T EXCEPT !.q = Tail(@), !.listed = Bump(@, realpath(fsys, Head(T.q))),
            !.bfs = [@ EXCEPT !.qd = Tail(@), !.level = Head(T.bfs.qd),
                              !.last_list = T.bfs.first[realpath(fsys, Head(T.q))]]]

\* q = deque([path]); visit_table[path] = True
TraverseRoot(fsys, path, T) ==
  [T EXCEPT !.q = <<path>>,
            !.visit_table = DictSet(@, path, TRUE),
            !.enq = Bump(@, realpath(fsys, path)),
            !.bfs = Bfs(<<0>>, 0, DictSet(EmptyDict, realpath(fsys, path), 0), 0, 0)]

\* ---------------------------------------------------------------- zip_files
\* the decimal digits of a positive counter
RECURSIVE Decimal(_)
Decimal(n) == IF n < 10 THEN <<Digits[n + 1]>> ELSE Append(Decimal(n \div 10), Digits[(n % 10) + 1])

\* '({}) {}'.format(counter, name)
FormatName(counter, name) == <<"(">> \o Decimal(counter) \o <<")", " ">> \o name

\* NoCollisionName with an if in the place of the while: one round at most
NoCollisionName_OneRound(written_set, counter, no_collision_name) ==
  IF no_collision_name \in written_set
  THEN FormatName(counter + 1, no_collision_name)
  ELSE no_collision_name

\* the rounds the while loop makes before it ends (counter at the exit), the
\* loop followed for fuel rounds at most; -1 when it has not ended by then
RECURSIVE LoopRounds(_, _, _, _)
LoopRounds(written_set, counter, no_collision_name, fuel) ==
  IF no_collision_name \notin written_set THEN counter
  ELSE IF fuel = 0 THEN 0 - 1
  ELSE LoopRounds(written_set, counter + 1, FormatName(counter + 1, no_collision_name),
                  fuel - 1)

\* the while loop: the first name not in written_set, each round formatting
\* counter and the name of the round before
RECURSIVE NoCollisionName(_, _, _)
NoCollisionName(written_set, counter, no_collision_name) ==
  IF no_collision_name \in written_set
  THEN NoCollisionName(written_set, counter + 1, FormatName(counter + 1, no_collision_name))
  ELSE no_collision_name

\* the archive: state "none" (never opened), "open" or "closed"; entries in
\* the order written
ZipFile(state, path, entries) == [state |-> state, path |-> path, entries |-> entries]

ZipEntry(file, name) == [file |-> file, name |-> name]


\* --------------------------------------------------------------- print_dupl
\* the code point of a character that occurs in a path
Ord(c) ==
  CASE c = " " -> 32
    [] c = "(" -> 40
    [] c = ")" -> 41
    [] c = "/" -> 47
    [] IsDigit(c) -> 48 + DigitVal(c)
    [] c = "d" -> 100
    [] c = "e" -> 101
    [] c = "f" -> 102
    [] c = "g" -> 103
    [] c = "l" -> 108
    [] c = "m" -> 109
    [] c = "n" -> 110
    [] c = "o" -> 111
    [] c = "r" -> 114
    [] c = "z" -> 122

\* the path as the string the program holds: "/" before every name
RECURSIVE PathChars(_)
PathChars(p) == IF p = <<>> THEN <<>> ELSE <<"/">> \o Head(p) \o PathChars(Tail(p))

\* string comparison a < b
RECURSIVE StrLess(_, _)
StrLess(a, b) ==
  IF b = <<>> THEN FALSE
  ELSE IF a = <<>> THEN TRUE
  ELSE IF Head(a) # Head(b) THEN Ord(Head(a)) < Ord(Head(b))
  ELSE StrLess(Tail(a), Tail(b))

PathLess(p1, p2) == StrLess(PathChars(p1), PathChars(p2))

\* sorted(paths) / bucket.sort()
RECURSIVE SortPaths(_)
SortPaths(ps) ==
  IF ps = {} THEN <<>>
  ELSE LET least == CHOOSE p \in ps : \A o \in ps \ {p} : PathLess(p, o)
       IN <<least>> \o SortPaths(ps \ {least})

\* file_shasum: files have the same digest iff they have the same content
file_shasum(fsys, file_path) == stat(fsys, file_path).content

\* BucketKey taking the base name in both duplicate modes
BucketKey_AlwaysName(fsys, duplname, visited_item) ==
  [name |-> basename(visited_item), digest |-> ""]

\* the key of the bucket a selected file goes to: [name, digest], one of them
\* unused
BucketKey(fsys, duplname, visited_item) ==
  IF duplname THEN [name |-> basename(visited_item), digest |-> ""]
  ELSE [name |-> <<>>, digest |-> file_shasum(fsys, visited_item)]

\* the lines printed for the buckets with keys keys[i..], in that order
RECURSIVE BucketLines(_, _, _, _, _)
BucketLines(fsys, duplname, sel, keys, i) ==
  IF i > Len(keys) THEN <<>>
  ELSE LET bucket == SortPaths({ f \in sel : BucketKey(fsys, duplname, f) = keys[i] })
       IN [j \in 1..Len(bucket) |-> PathLine(bucket[j])]
          \o <<Line("sep", <<>>, "DUPL_BUCKET_SEPARATOR")>>
          \o BucketLines(fsys, duplname, sel, keys, i + 1)

\* the sum of the sizes of the files in ps
RECURSIVE TotalSize(_, _)
TotalSize(fsys, ps) ==
  IF ps = {} THEN 0
  ELSE LET p == CHOOSE x \in ps : TRUE
       IN getsize(fsys, p) + TotalSize(fsys, ps \ {p})

\* all orders in which a dictionary may hand out the keys ks
Orders(ks) ==
  { o \in [1..Cardinality(ks) -> ks] : \A i, j \in 1..Cardinality(ks) : i # j => o[i] # o[j] }


\* -------------------------------------------------------------------- state
VARIABLES
  argv,          \* sys.argv
  fs,            \* the filesystem the program runs on
  pc,            \* where main is
  parsed,        \* what parse_args returned
  selectors,     \* the selectors dictionary (resolved in place)
  operations,    \* the operations dictionary
  output_modes,  \* the output modes dictionary
  paths,         \* the traversal roots
  root_i,        \* the index of the root  for path in paths  is at
  q,             \* traverse: the queue
  cur_dir,       \* traverse: the directory taken from the queue
  dir_cont,      \* traverse: its listing
  name_i,        \* traverse: the index in dir_cont  for name in dir_cont  is at
  visit_table,   \* path -> is it a directory
  selected,      \* the set of selected files
  stats,         \* the four counters
  out,           \* the lines printed so far
  enq,           \* canonical directory -> times put in the queue
  listed,        \* canonical directory -> times listed
  evals,         \* canonical file -> times counted and given to select
  zip_file,      \* the archive zip_files writes
  written_set,   \* zip_files: the names written
  todo,          \* zip_files: the files the for loop has not reached yet
  removed,       \* the files os.remove was called on
  bfs,           \* the order of the breadth-first search of the current root
  sha_open,      \* file_shasum: the file handles opened and not closed
  exc            \* the exception raised in main: "" (none) or its type

vars ==
  <<argv, fs, pc, parsed, selectors, operations, output_modes, paths, root_i, q,
    cur_dir, dir_cont, name_i, visit_table, selected, stats, out, enq, listed, evals, zip_file, written_set,
    todo, removed, bfs, sha_open, exc>>

\* the working directory of the process
cwd == pRoot

ERR_MSG_ILLEGAL_OPT == "Illegal or conflicting command line option(s) was specified."
ERR_MSG_ILLEGAL_ARG == "An illegal argument was supplied to one of the options."
ERR_MSG_PATH_NOT_DIR ==
  "One of the following supplied paths is non-existent or is not a directory:"
ERR_MSG_ZIP_FAILED == "The zipping operation failed."
ERR_MSG_UNC_EXC == "An uncaught exception occured: {}"

\* ------------------------------------------------------------------ inputs
\* all sequences over S of length at most n
RECURSIVE SeqsUpTo(_, _)
SeqsUpTo(S, n) ==
  IF n = 0 THEN { <<>> }
  ELSE LET shorter == SeqsUpTo(S, n - 1)
       IN shorter \cup { Append(a, x) : a \in { b \in shorter : Len(b) = n - 1 }, x \in S }

Options == DOMAIN SELECTOR_OPTS \cup DOMAIN OPERATION_OPTS \cup DOMAIN OUTPUT_MODE_OPTS

\* what a command line is made of: the options, and strings that serve as
\* option values and as paths
Tokens == Options \cup {"", "0", "(", "/r", "/x"}

CommandLine(args) == <<"filelist">> \o args

\* a directory /r holding the single file f
OneFileFS(size, date, tod) ==
  (<<>> :> DirNode(<<nR>>))
  @@ (pRoot :> DirNode(<<nF>>))
  @@ (join(pRoot, nF) :> FileNode(size, date, tod, "A"))

\* /r holding the directories 1 .. n, each holding a file f
SameNameFS(n) ==
  LET sub(i) == join(pRoot, Decimal(i))
  IN (<<>> :> DirNode(<<nR>>))
     @@ (pRoot :> DirNode([i \in 1..n |-> Decimal(i)]))
     @@ [p \in { sub(i) : i \in 1..n } |-> DirNode(<<nF>>)]
     @@ [p \in { join(sub(i), nF) : i \in 1..n } |->
          FileNode(DigitsVal(p[2]), 20230101, 0, "A")]

\* /r holding f and "(1) f", /r/1 holding f and "(1) f", /r/2 holding f:
\* names that are what the renaming of another file gives
ParenNameFS ==
  LET sub(i) == join(pRoot, Decimal(i))
      paren == FormatName(1, nF)
  IN (<<>> :> DirNode(<<nR>>))
     @@ (pRoot :> DirNode(<<Decimal(1), Decimal(2), nF, paren>>))
     @@ (sub(1) :> DirNode(<<paren, nF>>))
     @@ (sub(2) :> DirNode(<<nF>>))
     @@ (join(pRoot, nF) :> FileNode(1, 20230101, 0, "A"))
     @@ (join(pRoot, paren) :> FileNode(2, 20230101, 0, "B"))
     @@ (join(sub(1), nF) :> FileNode(3, 20230101, 0, "A"))
     @@ (join(sub(1), paren) :> FileNode(4, 20230101, 0, "C"))
     @@ (join(sub(2), nF) :> FileNode(5, 20230101, 0, "D"))

\* with(opt, values): the option with each of the values, or no option
WithOpt(opt, values) == { <<>> } \cup { <<opt, v>> : v \in values }

Timestamps == {"20230101", "20230601", "20230101T120000", "20230601T120000", "20231301"}

Sizes == {"0", "5", "0k", "1K", "-1", ""}

\* any short command line, on the filesystem without links
AnyArgsInputs ==
  { [argv |-> CommandLine(a), fs |-> PlainFS] : a \in SeqsUpTo(Tokens, MaxArgs) }

\* the traversal of the filesystems with links, from various roots
TraverseInputs ==
  { [argv |-> CommandLine(o \o r), fs |-> f] :
      o \in { <<>>, <<CMD_OPT_STATS>>, <<CMD_OPT_NOFILELIST>> },
      r \in { <<>>, <<"/r", "/r">>, <<"/r/d", "/r">>, <<"/r", "/r/d">>,
              <<"/r/d", "/r/l">>, <<"/r/l", "/r/d">>, <<"/r/l">> },
      f \in FileSystems }

\* the time and size selectors on one file
SelectInputs ==
  { [argv |-> CommandLine(b \o a), fs |-> OneFileFS(5, date, tod)] :
      b \in WithOpt(CMD_OPT_BEFORE, Timestamps), a \in WithOpt(CMD_OPT_AFTER, Timestamps),
      date \in {20221231, 20230101, 20230315, 20230601, 20230602},
      tod \in {0, 43200, 50000} }
  \cup
  { [argv |-> CommandLine(sm \o bg), fs |-> OneFileFS(size, 20230101, 0)] :
      sm \in WithOpt(CMD_OPT_SMALLER, Sizes), bg \in WithOpt(CMD_OPT_BIGGER, Sizes),
      size \in {0, 3, 5, 1024, 2000} }

\* the name selector together with the time and size selectors and the
\* output modes, on the roots /r and /o
MatchInputs ==
  { [argv |-> CommandLine(o \o m \o b \o a \o sm \o <<"/r", "/o">>), fs |-> PlainFS] :
      o \in { <<>>, <<CMD_OPT_DUPLNAME>>, <<CMD_OPT_DUPLCONT, CMD_OPT_STATS>>,
              <<CMD_OPT_NOFILELIST, CMD_OPT_STATS>> },
      m \in WithOpt(CMD_OPT_MATCH, {"f", "z", ".*"}),
      b \in WithOpt(CMD_OPT_BEFORE, {"20230101", "20230601T120000"}),
      a \in WithOpt(CMD_OPT_AFTER, {"20230101T120000"}),
      sm \in WithOpt(CMD_OPT_SMALLER, {"5", "1K"}) }

\* the runs on the filesystems on which a system call fails
FailureInputs ==
  { [argv |-> CommandLine(a), fs |-> f] :
      a \in { <<>>, <<CMD_OPT_STATS>>, <<CMD_OPT_DELETE>>, <<CMD_OPT_ZIP, "0">>,
              <<CMD_OPT_DUPLCONT, CMD_OPT_STATS>>, <<CMD_OPT_DUPLNAME>>,
              <<CMD_OPT_SMALLER, "1K", CMD_OPT_DUPLCONT>> },
      f \in FailingFileSystems }

\* the strings given as sizes
SizeStrings ==
  {"", "0", "5", "10k", "10K", "1m", "1M", "1g", "1G", "-1", "-1k", "k", "5x", "5b",
   "inf", "nan"}

\* one size selector, or both, on one file
SizeInputs ==
  { [argv |-> CommandLine(<<o, v>>), fs |-> OneFileFS(5, 20230101, 0)] :
      o \in {CMD_OPT_SMALLER, CMD_OPT_BIGGER}, v \in SizeStrings }
  \cup
  { [argv |-> CommandLine(<<CMD_OPT_BIGGER, v, CMD_OPT_SMALLER, w>>),
     fs |-> OneFileFS(5, 20230101, 0)] :
      v \in {"5", "k", "1m"}, w \in {"10k", "5x", "-1"} }

\* most files of one name in the archive
MaxSame == 4

ZipInputs ==
  { [argv |-> CommandLine(<<CMD_OPT_ZIP, "0">>), fs |-> SameNameFS(n)] : n \in 1..MaxSame }
  \cup
  { [argv |-> CommandLine(<<CMD_OPT_ZIP, "0">>), fs |-> ParenNameFS] }

Inputs ==
  AnyArgsInputs \cup TraverseInputs \cup SelectInputs \cup MatchInputs \cup FailureInputs
  \cup SizeInputs
  \cup ZipInputs

\* the state main starts in, for an input of the set I
InitWith(I) ==
  /\ \E in \in I : argv = in.argv /\ fs = in.fs
  /\ pc = "parse"
  /\ parsed = ParseFailure(PyNone)
  /\ selectors = EmptyDict
  /\ operations = EmptyDict
  /\ output_modes = EmptyDict
  /\ paths = <<>>
  /\ root_i = 0
  /\ q = <<>>
  /\ cur_dir = <<>>
  /\ dir_cont = <<>>
  /\ name_i = 0
  /\ visit_table = [p \in {} |-> TRUE]
  /\ selected = {}
  /\ stats = [visit_count |-> 0, list_count |-> 0, visit_size |-> 0, list_size |-> 0]
  /\ out = <<>>
  /\ enq = [p \in DOMAIN fs |-> 0]
  /\ listed = [p \in DOMAIN fs |-> 0]
  /\ evals = [p \in DOMAIN fs |-> 0]
  /\ zip_file = ZipFile("none", <<>>, <<>>)
  /\ written_set = {}
  /\ todo = {}
  /\ removed = {}
  /\ bfs = Bfs(<<>>, 0, EmptyDict, 0, 0)
  /\ sha_open = 0
  /\ exc = ""


Init == InitWith(Inputs)

\* ------------------------------------------------------------------ actions
forVars == <<cur_dir, dir_cont, name_i>>
travVars == <<q, forVars, visit_table, selected, stats, enq, listed, evals, bfs>>
zipVars == <<zip_file, written_set, todo>>
optVars == <<selectors, operations, output_modes, paths>>
errVars == <<sha_open, exc>>

\* main: parsed = parse_args(sys.argv), the test parsed == False, the unpacking
MainParse ==
  /\ pc = "parse"
  /\ LET r == parse_args(argv)
     IN /\ parsed' = r
        /\ IF PyEqFalse(r.ret)
           THEN /\ out' = Append(out, Message(ERR_MSG_ILLEGAL_OPT))
                /\ pc' = "done"
                /\ UNCHANGED <<optVars, exc>>
           ELSE IF r.ret.t = "none"
           THEN \* unpacking None raises TypeError
                /\ pc' = "raised"
                /\ exc' = "TypeError"
                /\ UNCHANGED <<out, optVars>>
           ELSE /\ selectors' = r.selectors
                /\ operations' = r.operations
                /\ output_modes' = r.output_modes
                /\ paths' = r.paths
                /\ pc' = "resolve"
                /\ UNCHANGED <<out, exc>>
  /\ UNCHANGED <<argv, fs, root_i, travVars, zipVars, removed, sha_open>>

\* MainResolveSelectors without the return after the error message
MainResolveSelectors_NoReturn ==
  /\ pc = "resolve"
  /\ LET r == ResolveSelectors(selectors)
     IN /\ selectors' = r.selectors
        /\ pc' = "paths"
        /\ out' = IF r.ok THEN out ELSE Append(out, Message(ERR_MSG_ILLEGAL_ARG))
  /\ UNCHANGED <<argv, fs, parsed, operations, output_modes, paths, root_i, travVars,
                 zipVars, removed, errVars>>

\* main: the three selector resolvers
MainResolveSelectors ==
  /\ pc = "resolve"
  /\ LET r == ResolveSelectors(selectors)
     IN /\ selectors' = r.selectors
        /\ IF r.ok
           THEN pc' = "paths" /\ UNCHANGED out
           ELSE pc' = "done" /\ out' = Append(out, Message(ERR_MSG_ILLEGAL_ARG))
  /\ UNCHANGED <<argv, fs, parsed, operations, output_modes, paths, root_i, travVars,
                 zipVars, removed, errVars>>

\* main: resolve_paths, and the silencing of traverse in the duplicate modes
MainResolvePaths ==
  /\ pc = "paths"
  /\ LET r == resolve_paths(fs, cwd, paths)
     IN /\ paths' = r.paths
        /\ IF r.ok
           THEN /\ pc' = "traverse"
                /\ root_i' = 1
                /\ output_modes' =
                     IF PyTruthy(output_modes[CMD_OPT_DUPLCONT])
                        \/ PyTruthy(output_modes[CMD_OPT_DUPLNAME])
                     THEN [output_modes EXCEPT ![CMD_OPT_NOFILELIST] = PyTrue]
                     ELSE output_modes
                /\ UNCHANGED out
           ELSE /\ pc' = "done"
                /\ out' = out \o <<Message(ERR_MSG_PATH_NOT_DIR), Message("paths")>>
                /\ UNCHANGED <<root_i, output_modes>>
  /\ UNCHANGED <<argv, fs, parsed, selectors, operations, travVars, zipVars, removed,
                 errVars>>

CurrentT == TState(q, visit_table, selected, stats, out, enq, listed, evals, bfs)

SetT(T) ==
  /\ q' = T.q
  /\ visit_table' = T.visit_table
  /\ selected' = T.selected
  /\ stats' = T.stats
  /\ out' = T.out
  /\ enq' = T.enq
  /\ listed' = T.listed
  /\ evals' = T.evals
  /\ bfs' = T.bfs

\* traverse is called for the next root: the queue and the root's mark
TraverseBegin ==
  /\ pc = "traverse"
  /\ SetT(TraverseRoot(fs, paths[root_i], CurrentT))
  /\ pc' = "bfs"
  /\ UNCHANGED <<argv, fs, parsed, optVars, root_i, forVars, zipVars, removed, errVars>>

\* the test of  while q ; with a directory in the queue: popleft and listdir,
\* which raises OSError when the directory cannot be listed; with none
\* traverse returns, and main goes to the next root or past the loop
TraverseStep ==
  /\ pc = "bfs"
  /\ IF q # <<>>
     THEN /\ SetT(PopLeft(fs, CurrentT))
          /\ cur_dir' = Head(q)
          /\ IF stat(fs, Head(q)).err = "list"
             THEN /\ pc' = "raised"
                  /\ exc' = "OSError"
                  /\ UNCHANGED <<dir_cont, name_i>>
             ELSE /\ dir_cont' = listdir(fs, Head(q))
                  /\ name_i' = 1
                  /\ pc' = IF listdir(fs, Head(q)) = <<>> THEN "bfs" ELSE "for"
                  /\ UNCHANGED exc
          /\ UNCHANGED root_i
     ELSE /\ IF root_i < Len(paths)
             THEN pc' = "traverse" /\ root_i' = root_i + 1
             ELSE pc' = "dupl" /\ UNCHANGED root_i
          /\ UNCHANGED <<travVars, out, exc>>
  /\ UNCHANGED <<argv, fs, parsed, optVars, zipVars, removed, sha_open>>

\* one iteration of  for name in dir_cont
TraverseItem ==
  /\ pc = "for"
  /\ SetT(ProcessItem(fs, selectors, PyTruthy(output_modes[CMD_OPT_NOFILELIST]),
                      cur_dir, dir_cont[name_i], CurrentT))
  /\ IF name_i < Len(dir_cont)
     THEN name_i' = name_i + 1 /\ UNCHANGED pc
     ELSE pc' = "bfs" /\ UNCHANGED name_i
  /\ UNCHANGED <<argv, fs, parsed, optVars, root_i, cur_dir, dir_cont, zipVars, removed,
                 errVars>>

\* main: print_dupl when a duplicate mode is on.  By content, file_shasum
\* opens and reads every selected file while the buckets are built, before
\* anything is printed: the first file it fails on (the set is gone through
\* in any order) ends print_dupl with IOError, the file handle left open if
\* it was the read that failed.
MainPrintDupl ==
  /\ pc = "dupl"
  /\ LET duplname == PyTruthy(output_modes[CMD_OPT_DUPLNAME])
         duplcont == PyTruthy(output_modes[CMD_OPT_DUPLCONT])
         keys == { BucketKey(fs, duplname, f) : f \in selected }
         unreadable == { f \in selected : stat(fs, f).err \in {"open", "read"} }
     IN IF duplname \/ duplcont
        THEN IF ~duplname /\ unreadable # {}
             THEN /\ \E f \in unreadable :
                       sha_open' = IF stat(fs, f).err = "read" THEN sha_open + 1 ELSE sha_open
                  /\ pc' = "raised"
                  /\ exc' = "IOError"
                  /\ UNCHANGED <<out, stats>>
             ELSE /\ \E order \in Orders(keys) :
                       out' = out \o BucketLines(fs, duplname, selected, order, 1)
                  /\ stats' = [stats EXCEPT !.list_count = @ + Cardinality(selected),
                                            !.list_size = @ + TotalSize(fs, selected)]
                  /\ pc' = "stats"
                  /\ UNCHANGED errVars
        ELSE pc' = "stats" /\ UNCHANGED <<out, stats, errVars>>
  /\ UNCHANGED <<argv, fs, parsed, optVars, root_i, q, forVars, visit_table, selected,
                 enq, listed, evals, bfs, zipVars, removed>>

\* main: print_stats when -stats is on
MainPrintStats ==
  /\ pc = "stats"
  /\ pc' = "zip"
  /\ out' = IF PyTruthy(output_modes[CMD_OPT_STATS])
            THEN out \o <<Message(""), Line("stats", <<>>, "STAT_MSG_VISIT_COUNT"),
                          Line("stats", <<>>, "STAT_MSG_VISIT_SIZE"),
                          Line("stats", <<>>, "STAT_MSG_LIST_COUNT"),
                          Line("stats", <<>>, "STAT_MSG_LIST_SIZE")>>
            ELSE out
  /\ UNCHANGED <<argv, fs, parsed, optVars, root_i, travVars, zipVars, removed, errVars>>

\* ZipBegin without the test that the destination exists
ZipBegin_Overwrites ==
  /\ pc = "zip"
  /\ LET zip == operations[CMD_OPT_ZIP]
         zip_path == abspath(zip.s, cwd)
     IN IF ~PyTruthy(zip)
        THEN pc' = "delete" /\ UNCHANGED <<out, zipVars, exc>>
        ELSE IF ~isdir(fs, Front(zip_path))
        THEN pc' = "raised" /\ exc' = "IOError" /\ UNCHANGED <<out, zipVars>>
        ELSE /\ pc' = "zipping"
             /\ zip_file' = ZipFile("open", zip_path, <<>>)
             /\ written_set' = {}
             /\ todo' = selected
             /\ UNCHANGED <<out, exc>>
  /\ UNCHANGED <<argv, fs, parsed, optVars, root_i, travVars, removed, sha_open>>

\* main: the test of operations['-zip']; zip_files up to the for loop
ZipBegin ==
  /\ pc = "zip"
  /\ LET zip == operations[CMD_OPT_ZIP]
         zip_path == abspath(zip.s, cwd)
     IN IF ~PyTruthy(zip)
        THEN pc' = "delete" /\ UNCHANGED <<out, zipVars, exc>>
        ELSE IF exists(fs, zip_path)
        THEN \* zip_files returns False
             /\ pc' = "delete"
             /\ out' = Append(out, Message(ERR_MSG_ZIP_FAILED))
             /\ UNCHANGED <<zipVars, exc>>
        ELSE IF ~isdir(fs, Front(zip_path))
        THEN \* ZipFile cannot create the file: IOError
             pc' = "raised" /\ exc' = "IOError" /\ UNCHANGED <<out, zipVars>>
        ELSE /\ pc' = "zipping"
             /\ zip_file' = ZipFile("open", zip_path, <<>>)
             /\ written_set' = {}
             /\ todo' = selected
             /\ UNCHANGED <<out, exc>>
  /\ UNCHANGED <<argv, fs, parsed, optVars, root_i, travVars, removed, sha_open>>

\* zip_files: one iteration of  for file in files  (a set: in any order);
\* zip_file.write raises IOError when the file cannot be opened or read
ZipWrite ==
  /\ pc = "zipping"
  /\ \E file \in todo :
       LET no_collision_name == NoCollisionName(written_set, 0, basename(file))
       IN IF stat(fs, file).err \in {"open", "read"}
          THEN /\ pc' = "raised"
               /\ exc' = "IOError"
               /\ UNCHANGED zipVars
          ELSE /\ zip_file' = [zip_file EXCEPT
                                 !.entries = Append(@, ZipEntry(file, no_collision_name))]
               /\ written_set' = written_set \cup {no_collision_name}
               /\ todo' = todo \ {file}
               /\ UNCHANGED <<pc, exc>>
  /\ UNCHANGED <<argv, fs, parsed, optVars, root_i, travVars, out, removed, sha_open>>

\* zip_files: zip_file.close() and return True
ZipClose ==
  /\ pc = "zipping"
  /\ todo = {}
  /\ zip_file' = [zip_file EXCEPT !.state = "closed"]
  /\ pc' = "delete"
  /\ UNCHANGED <<argv, fs, parsed, optVars, root_i, travVars, out, written_set, todo,
                 removed, errVars>>

\* MainDelete removing every file the traversal examined
MainDelete_RemovesVisited ==
  /\ pc = "delete"
  /\ pc' = "done"
  /\ removed' = IF PyTruthy(operations[CMD_OPT_DELETE])
                THEN { f \in DOMAIN visit_table : ~visit_table[f] }
                ELSE removed
  /\ UNCHANGED <<argv, fs, parsed, optVars, root_i, travVars, out, zipVars, errVars>>

\* main: delete_files when -delete is on
MainDelete ==
  /\ pc = "delete"
  /\ pc' = "done"
  /\ removed' = IF PyTruthy(operations[CMD_OPT_DELETE]) THEN selected ELSE removed
  /\ UNCHANGED <<argv, fs, parsed, optVars, root_i, travVars, out, zipVars, errVars>>

\* safe_main_wrapper: the except branch
SafeMainWrapperExcept ==
  /\ pc = "raised"
  /\ pc' = "done"
  /\ out' = Append(out, Message(ERR_MSG_UNC_EXC))
  /\ UNCHANGED <<argv, fs, parsed, optVars, root_i, travVars, zipVars, removed, errVars>>

Next ==
  \/ MainParse
  \/ MainResolveSelectors
  \/ MainResolvePaths
  \/ TraverseBegin
  \/ TraverseStep
  \/ TraverseItem
  \/ MainPrintDupl
  \/ MainPrintStats
  \/ ZipBegin
  \/ ZipWrite
  \/ ZipClose
  \/ MainDelete
  \/ SafeMainWrapperExcept

Spec == Init /\ [][Next]_vars

\* The runs on the filesystems with links, the process being scheduled until
\* it ends.
LinkInputs ==
  { [argv |-> CommandLine(<<>>), fs |-> f] : f \in FileSystems }
  \cup
  { [argv |-> CommandLine(a), fs |-> MkFS(pD, NoLink, NoLink, FALSE)] :
      a \in { <<CMD_OPT_STATS, CMD_OPT_DUPLNAME>>, <<CMD_OPT_ZIP, "0">>,
              <<CMD_OPT_DELETE>>, <<CMD_OPT_DELETE, CMD_OPT_DELETE>> } }

FairSpec == InitWith(LinkInputs) /\ [][Next]_vars /\ WF_vars(Next)


\* ------------------------------------------------------------------ claims
\* every root has been traversed to the end
TraversalComplete ==
  /\ pc \in {"dupl", "stats", "zip", "zipping", "delete", "done", "raised"}
  /\ root_i > 0
  /\ exc # "OSError"

\* the canonical paths of the entries of the directories ds
Entries(fsys, ds) ==
  UNION { { realpath(fsys, join(d, listdir(fsys, d)[i])) : i \in DOMAIN listdir(fsys, d) } :
            d \in ds }

\* the canonical directories reachable from the directories ds
RECURSIVE ReachableDirs(_, _)
ReachableDirs(fsys, ds) ==
  LET dirs == ds \cup { d \in Entries(fsys, ds) : isdir(fsys, d) }
  IN IF dirs = ds THEN ds ELSE ReachableDirs(fsys, dirs)

\* the canonical regular files reachable from the roots
ReachableFiles(fsys, roots) ==
  LET ds == ReachableDirs(fsys, { realpath(fsys, roots[i]) : i \in 1..Len(roots) })
  IN { f \in Entries(fsys, ds) : isfile(fsys, f) }

\* the directories some symbolic link points to
LinkTargets(fsys) ==
  { fsys[l].target : l \in { p \in DOMAIN fsys : fsys[p].kind = "link" } }

\* C1: traverse terminates on every finite filesystem, also with directory
\* symbolic links to the containing directory, to an ancestor or in a cycle:
\* the queue eventually becomes empty and the loop ends.
C1_TraverseTerminates == (pc \in {"bfs", "for"}) ~> (pc = "bfs" /\ q = <<>>)

\* C2: when all traversals have completed, every regular file reachable from
\* the roots has been counted and given to select exactly once, also when it
\* is reachable from two of the roots.
C2_EachFileCountedOnce ==
  TraversalComplete => \A f \in ReachableFiles(fs, paths) : evals[f] = 1

\* C3: a directory that is the target of a symbolic link is put in the queue
\* and has its children listed at most once in a run, whatever the paths it
\* is reachable by and the order they are discovered in.
C3_LinkTargetListedOnce ==
  \A d \in LinkTargets(fs) : d \in DOMAIN listed => listed[d] <= 1 /\ enq[d] <= 1


\* the options met as options on the command line (before the first argument
\* that is no option), with the value each was given
RECURSIVE SuppliedFrom(_, _)
SuppliedFrom(args, i) ==
  IF i > Len(args) \/ args[i] \notin Options THEN {}
  ELSE LET takes == args[i] \in DOMAIN SELECTOR_OPTS \/ args[i] = CMD_OPT_ZIP
       IN IF takes /\ i = Len(args) THEN { args[i] }
          ELSE { args[i] } \cup SuppliedFrom(args, IF takes THEN i + 2 ELSE i + 1)

Supplied(opt) == opt \in SuppliedFrom(argv, 2)

\* the files traverse has counted
VisitedFiles == { f \in DOMAIN visit_table : ~visit_table[f] }

\* select without its size checks
PassesOtherThanSize(f) ==
  select(fs, f, [selectors EXCEPT ![CMD_OPT_SMALLER] = PyFalse, ![CMD_OPT_BIGGER] = PyFalse])

\* C4: with -smaller b supplied a file of size s passes the size check iff
\* b >= s, with -bigger b supplied iff b <= s, for every resolved bound b >= 0
\* including b = 0; only an option that was not supplied is no selector.
C4_SizeBoundsApplied ==
  TraversalComplete =>
    \A f \in VisitedFiles :
      f \in selected <=>
        /\ PassesOtherThanSize(f)
        /\ Supplied(CMD_OPT_SMALLER) => NumGE(selectors[CMD_OPT_SMALLER], getsize(fs, f))
        /\ Supplied(CMD_OPT_BIGGER) => NumLE(selectors[CMD_OPT_BIGGER], getsize(fs, f))

\* a command line whose operations and duplicate modes conflict
ConflictingOperations ==
  \/ Supplied(CMD_OPT_DELETE) /\ Supplied(CMD_OPT_ZIP)
  \/ /\ Supplied(CMD_OPT_DUPLCONT) \/ Supplied(CMD_OPT_DUPLNAME)
     /\ Supplied(CMD_OPT_DELETE) \/ Supplied(CMD_OPT_ZIP)

\* nothing has been traversed, deleted or archived
NothingDone ==
  /\ root_i = 0
  /\ visit_table = [p \in {} |-> TRUE]
  /\ removed = {}
  /\ zip_file.state = "none"

\* C5: a command line with both -delete and -zip <value> (any value, also the
\* empty string), or with a duplicate mode together with -delete or -zip
\* <value>, is rejected before traversal: nothing is traversed, deleted or
\* archived.
C5_ConflictsRejected == ConflictingOperations => NothingDone

\* C6: zip_files given N files that all have the base name name writes the
\* entries name, (1) name, (2) name, ..., (N-1) name.
C6_SameNameEntries ==
  (zip_file.state = "closed" /\ \A f \in selected : basename(f) = nF) =>
    \A i \in 1..Len(zip_file.entries) :
      zip_file.entries[i].name = IF i = 1 THEN nF ELSE FormatName(i - 1, nF)

\* parse_args did not return the tuple
ParseRejected == pc # "parse" /\ parsed.ret # PyTrue

\* C7: whenever parse_args rejects the command line, main ends in the report
\* of illegal or conflicting options; it neither unpacks the result nor gets
\* to the handler of uncaught exceptions.
C7_ParseRejectionReported ==
  ParseRejected => pc = "done" /\ out = <<Message(ERR_MSG_ILLEGAL_OPT)>>


\* parsing, selector resolution or root resolution has failed, as the
\* functions themselves decide on what parse_args returned
ValidationFailed ==
  /\ pc # "parse"
  /\ IF parsed.ret # PyTrue THEN TRUE
     ELSE IF ~ResolveSelectors(parsed.selectors).ok THEN pc # "resolve"
     ELSE ~resolve_paths(fs, cwd, parsed.paths).ok /\ pc \notin {"resolve", "paths"}

\* the lines of the given kind printed so far
LinesOf(kind) == { i \in 1..Len(out) : out[i].kind = kind }

\* C8: in every run where option parsing, selector resolution or root-path
\* resolution fails, the run ends before the traversal: no path is listed, no
\* stats are printed, no archive is created and no file is deleted.
C8_ValidationFailureStopsRun ==
  ValidationFailed =>
    /\ pc \in {"done", "raised"}
    /\ NothingDone
    /\ LinesOf("path") = {} /\ LinesOf("stats") = {} /\ LinesOf("sep") = {}

\* a run that asked for -delete and failed at a root that is no directory
C8_Witness ==
  /\ pc = "done"
  /\ ValidationFailed
  /\ parsed.ret = PyTrue
  /\ ResolveSelectors(parsed.selectors).ok
  /\ PyTruthy(parsed.operations[CMD_OPT_DELETE])

\* main has called zip_files with a destination that exists, and it returned
ZipRefused ==
  /\ TraversalComplete
  /\ pc \in {"delete", "done"}
  /\ PyTruthy(operations[CMD_OPT_ZIP])
  /\ exists(fs, abspath(operations[CMD_OPT_ZIP].s, cwd))

\* C9: zip_files with a destination that exists returns failure without
\* opening or writing anything; main then reports the zip failure after the
\* listing and the stats already printed, which stay printed.
C9_ExistingDestinationRefused ==
  ZipRefused =>
    /\ zip_file = ZipFile("none", <<>>, <<>>)
    /\ written_set = {}
    /\ out # <<>> /\ out[Len(out)] = Message(ERR_MSG_ZIP_FAILED)
    /\ { out[i].path : i \in LinesOf("path") } =
         IF PyTruthy(output_modes[CMD_OPT_NOFILELIST]) THEN {} ELSE selected
    /\ (LinesOf("stats") # {}) <=> PyTruthy(output_modes[CMD_OPT_STATS])

\* the refusal after a listing has been printed
C9_Witness == ZipRefused /\ pc = "done" /\ LinesOf("path") # {}

\* both time bounds are resolved, and -before is strictly earlier than -after
BeforeEarlierThanAfter ==
  /\ TraversalComplete
  /\ selectors[CMD_OPT_BEFORE].t = "dt" /\ selectors[CMD_OPT_AFTER].t = "dt"
  /\ ~DtGE(selectors[CMD_OPT_BEFORE].date, selectors[CMD_OPT_BEFORE].tod,
           selectors[CMD_OPT_AFTER].date, selectors[CMD_OPT_AFTER].tod)

Instant(date, tod) ==
  (((date \div 10000) - 2000) * 372 + ((date \div 100) % 100) * 31 + (date % 100)) * 86400 + tod

\* the name of f fully matches the -match pattern, when -match is present
NameMatches(f) ==
  Supplied(CMD_OPT_MATCH) =>
    RegexFullMatch(Chars(parsed.selectors[CMD_OPT_MATCH].s), basename(f))

\* the modification instant of f as the bound sees it: the instant itself if
\* the bound carries a time of day, truncated to midnight otherwise
SeenBy(bound, f) ==
  Instant(stat(fs, f).date, IF bound.b THEN stat(fs, f).tod ELSE 0)

NotAfterBefore(f) ==
  Supplied(CMD_OPT_BEFORE) =>
    LET bound == selectors[CMD_OPT_BEFORE]
    IN Instant(bound.date, bound.tod) >= SeenBy(bound, f)

NotBeforeAfter(f) ==
  Supplied(CMD_OPT_AFTER) =>
    LET bound == selectors[CMD_OPT_AFTER]
    IN Instant(bound.date, bound.tod) <= SeenBy(bound, f)

\* the size checks of select alone
PassesSize(f) ==
  select(fs, f, [selectors EXCEPT ![CMD_OPT_MATCH] = PyFalse, ![CMD_OPT_BEFORE] = PyFalse,
                                  ![CMD_OPT_AFTER] = PyFalse])

CountersConsistent ==
  /\ stats.list_count = Cardinality(LinesOf("path"))
  /\ stats.list_count <= stats.visit_count
  /\ stats.list_size <= stats.visit_size
  /\ stats.visit_count = Cardinality(VisitedFiles)
  /\ stats.visit_count >= Cardinality(selected)
  /\ (Supplied(CMD_OPT_NOFILELIST) /\ ~Supplied(CMD_OPT_DUPLCONT)
        /\ ~Supplied(CMD_OPT_DUPLNAME)) => stats.list_count = 0

\* the step part of C12
CountersGrow ==
  /\ stats'.visit_count >= stats.visit_count
  /\ stats'.list_count >= stats.list_count
  /\ stats'.visit_size >= stats.visit_size
  /\ stats'.list_size >= stats.list_size

\* C12: in every reachable state the four counters have never decreased,
\* list_count is the number of file paths printed so far (by the traversal or
\* by the duplicate printer), list_count <= visit_count, list_size <=
\* visit_size, visit_count counts every regular file examined whether selected
\* or not, and with -nofilelist and no duplicate mode list_count stays 0.
C12_CountersMonotoneAndConsistent == [](CountersConsistent) /\ [][CountersGrow]_vars

\* a finished run that listed some of the files it examined, not all
C12_Witness ==
  /\ pc = "done"
  /\ stats.list_count > 0
  /\ stats.list_count < stats.visit_count
  /\ stats.list_size < stats.visit_size

\* a duplicate mode was asked for
DuplMode == Supplied(CMD_OPT_DUPLNAME) \/ Supplied(CMD_OPT_DUPLCONT)

\* what the files of one bucket have in common
DuplKeyOf(f) ==
  IF Supplied(CMD_OPT_DUPLNAME) THEN <<"name", Last(f)>>
  ELSE <<"digest", fs[realpath(fs, f)].content>>

\* the bucket the i-th line belongs to: the number of separators before it
BucketOf(i) == Cardinality({ j \in LinesOf("sep") : j < i })

\* C13: in either duplicate mode no path is printed during the traversal, and
\* print_dupl then prints a partition of the selected set: every selected path
\* exactly once, two paths in the same bucket iff they have the same key (base
\* name for -duplname, content for -duplcont), the paths of a bucket in
\* ascending order, and a separator line after every bucket, single-member
\* buckets included.
C13_DuplicatesPartitionSelected ==
  (DuplMode /\ root_i > 0 /\ exc = "") =>
    IF pc \in {"traverse", "bfs", "for", "dupl"}
    THEN LinesOf("path") = {} /\ LinesOf("sep") = {}
    ELSE /\ \A f \in selected : Cardinality({ i \in LinesOf("path") : out[i].path = f }) = 1
         /\ \A i \in LinesOf("path") : out[i].path \in selected
         /\ \A i, j \in LinesOf("path") :
              (BucketOf(i) = BucketOf(j)) <=> (DuplKeyOf(out[i].path) = DuplKeyOf(out[j].path))
         /\ \A i \in LinesOf("path") :
              /\ i < Len(out)
              /\ out[i + 1].kind \in {"path", "sep"}
              /\ out[i + 1].kind = "path" => PathLess(out[i].path, out[i + 1].path)
         /\ \A i \in LinesOf("sep") : i > 1 /\ out[i - 1].kind = "path"

\* a finished -duplcont run that printed a bucket of several paths and a
\* bucket of one
C13_Witness ==
  /\ pc = "done"
  /\ Supplied(CMD_OPT_DUPLCONT)
  /\ \E i \in LinesOf("sep") : i > 2 /\ out[i - 2].kind = "path"
  /\ \E i \in LinesOf("sep") : i > 2 /\ out[i - 2].kind = "sep"

\* C14: every handle the program opens is closed on every path to the end of
\* the run: the archive writer of zip_files also when writing an entry fails,
\* the file handle of file_shasum also when a read fails; no run ends with a
\* handle still open.
C14_HandlesClosedAtEnd ==
  pc = "done" => zip_file.state # "open" /\ sha_open = 0

\* the index of the name of entry p in the listing of its directory
IndexIn(p) == CHOOSE i \in DOMAIN fs[Front(p)].list : fs[Front(p)].list[i] = Last(p)

\* the traversal has come to an entry it could not stat, or to a directory it
\* could not list
TraversalMetFailure ==
  \/ \E d \in DOMAIN fs : fs[d].err = "list" /\ listed[d] > 0
  \/ \E p \in DOMAIN fs :
       /\ fs[p].err = "stat"
       /\ listed[Front(p)] > 0
       /\ ~(cur_dir = Front(p) /\ pc = "for" /\ name_i <= IndexIn(p))

\* C15: when listing a directory or statting a file fails during the
\* traversal, the failure is not masked: the traversal stops, the run ends in
\* the report of the uncaught exception, and no duplicates or stats are
\* printed, nothing is archived and nothing is deleted.
C15_TraversalFailurePropagates ==
  TraversalMetFailure =>
    /\ pc \in {"raised", "done"}
    /\ exc = "OSError"
    /\ pc = "done" => out[Len(out)] = Message(ERR_MSG_UNC_EXC)
    /\ LinesOf("sep") = {} /\ LinesOf("stats") = {}
    /\ zip_file.state = "none" /\ removed = {}

\* the letters
Letters ==
  {"a", "b", "c", "d", "e", "f", "g", "h", "i", "j", "k", "l", "m", "n", "o", "p", "q", "r",
   "s", "t", "u", "v", "w", "x", "y", "z", "A", "B", "C", "D", "E", "F", "G", "H", "I", "J",
   "K", "L", "M", "N", "O", "P", "Q", "R", "S", "T", "U", "V", "W", "X", "Y", "Z"}

\* the factor a suffix letter stands for
SuffixFactor(c) ==
  CASE c \in {"k", "K"} -> 1024
    [] c \in {"m", "M"} -> 1024 * 1024
    [] c \in {"g", "G"} -> 1024 * 1024 * 1024

SuffixLetters == {"k", "K", "m", "M", "g", "G"}

\* a non-negative integer numeral followed by an optional suffix
IsSizeString(cs) ==
  \/ AllDigits(cs)
  \/ Len(cs) >= 2 /\ Last(cs) \in SuffixLetters /\ AllDigits(Front(cs))

\* the byte count such a string stands for
BytesOf(cs) ==
  IF Last(cs) \in SuffixLetters THEN DigitsVal(Front(cs)) * SuffixFactor(Last(cs))
  ELSE DigitsVal(cs)

\* the strings that are no size: empty, a negative number, a suffix without
\* numeral, any other trailing letter
IsNoSizeString(cs) ==
  \/ cs = <<>>
  \/ Head(cs) = "-" /\ IsSizeString(Tail(cs)) /\ BytesOf(Tail(cs)) > 0
  \/ Len(cs) = 1 /\ cs[1] \in SuffixLetters
  \/ Last(cs) \in Letters \ SuffixLetters

\* the size option opt has been through resolve_size_selectors (-smaller is
\* resolved first, and -bigger only if -smaller did not fail)
SizeResolved(opt) ==
  /\ pc \notin {"parse", "resolve"}
  /\ parsed.ret = PyTrue
  /\ Supplied(opt)
  /\ resolve_datetime_selectors(parsed.selectors).ok
  /\ (opt = CMD_OPT_BIGGER /\ Supplied(CMD_OPT_SMALLER)) =>
       IsSizeString(Chars(parsed.selectors[CMD_OPT_SMALLER].s))

\* the run ended in the report of an illegal argument, before any traversal
IllegalArgReported ==
  pc = "done" /\ out = <<Message(ERR_MSG_ILLEGAL_ARG)>> /\ root_i = 0

\* C16: resolve_size_selectors maps a non-negative integer numeral n with an
\* optional suffix to n, n*1024 (k/K), n*1024^2 (m/M) or n*1024^3 (g/G) bytes,
\* and fails for the empty string, a negative number, a suffix without
\* numeral and any other trailing letter.
C16_SizeStringsResolved ==
  \A opt \in {CMD_OPT_SMALLER, CMD_OPT_BIGGER} :
    SizeResolved(opt) =>
      LET cs == Chars(parsed.selectors[opt].s)
      IN /\ IsSizeString(cs) => selectors[opt] = PyNum(BytesOf(cs))
         /\ IsNoSizeString(cs) => IllegalArgReported

\* going through args from index i in option position, with the options seen
\* so far: is an option met that was seen before?
RECURSIVE MetTwiceFrom(_, _, _)
MetTwiceFrom(args, i, seen) ==
  IF i > Len(args) \/ args[i] \notin Options THEN FALSE
  ELSE IF args[i] \in seen THEN TRUE
  ELSE LET takes == args[i] \in DOMAIN SELECTOR_OPTS \/ args[i] = CMD_OPT_ZIP
       IN IF takes /\ i = Len(args) THEN FALSE
          ELSE MetTwiceFrom(args, IF takes THEN i + 2 ELSE i + 1, seen \cup {args[i]})

\* C17: parse_args fails for every argument list in which an option is met as
\* an option a second time before the first path, for options with and
\* without value, and the run then traverses, archives and deletes nothing.
C17_RepeatedOptionRejected ==
  (pc # "parse" /\ MetTwiceFrom(argv, 2, {})) =>
    /\ parsed.ret # PyTrue
    /\ pc \in {"raised", "done"}
    /\ NothingDone

\* a finished run whose command line repeats an option that takes a value
C17_Witness ==
  /\ pc = "done"
  /\ MetTwiceFrom(argv, 2, {})
  /\ Len(argv) = 4 /\ argv[2] = CMD_OPT_ZIP /\ argv[4] = CMD_OPT_ZIP

\* the index of the first argument that is no option in option position
\* (past the end if there is none)
RECURSIVE PathStart(_, _)
PathStart(args, i) ==
  IF i > Len(args) \/ args[i] \notin Options THEN i
  ELSE IF args[i] \in DOMAIN SELECTOR_OPTS \/ args[i] = CMD_OPT_ZIP
  THEN PathStart(args, i + 2)
  ELSE PathStart(args, i + 1)

\* the options the dictionaries of parse_args hold a value for
OptionsSet ==
  { o \in DOMAIN parsed.selectors : parsed.selectors[o] # PyFalse }
  \cup { o \in DOMAIN parsed.operations : parsed.operations[o] # PyFalse }
  \cup { o \in DOMAIN parsed.output_modes : parsed.output_modes[o] # PyFalse }

\* C18: from the first argument that is no option (in option position) on,
\* every argument is collected as a path, in the original order, and none is
\* taken as an option even if it is spelled like one: a -delete or -zip after
\* the first path sets no operation.
C18_PathsAfterFirstNonOption ==
  (pc # "parse" /\ parsed.ret = PyTrue) =>
    /\ parsed.paths = SubSeq(argv, PathStart(argv, 2), Len(argv))
    /\ OptionsSet = SuppliedFrom(argv, 2)
    /\ ~Supplied(CMD_OPT_DELETE) => removed = {}
    /\ ~Supplied(CMD_OPT_ZIP) => zip_file.state = "none"

\* a parsed command line with an option, a path and then -delete
C18_Witness ==
  /\ pc = "done"
  /\ parsed.ret = PyTrue
  /\ argv[2] \in Options
  /\ Len(parsed.paths) = 2
  /\ parsed.paths[2] = CMD_OPT_DELETE

\* the loop over the roots has ended, with every root traversed
AllRootsTraversed ==
  /\ pc \in {"dupl", "stats", "zip", "zipping", "delete", "done", "raised"}
  /\ root_i = Len(paths) /\ root_i > 0
  /\ q = <<>>
  /\ exc # "OSError"

\* the state part of C19: what a later step has done shows every earlier
\* step done
StepsInOrder ==
  /\ removed \subseteq selected
  /\ (LinesOf("sep") # {} \/ LinesOf("stats") # {} \/ zip_file.state # "none" \/ removed # {})
       => AllRootsTraversed
  /\ \A i \in LinesOf("stats") : \A j \in LinesOf("path") \cup LinesOf("sep") : j < i
  /\ (zip_file.state # "none" \/ removed # {}) =>
       /\ Supplied(CMD_OPT_STATS) => LinesOf("stats") # {}
       /\ DuplMode => LinesOf("path") # {} \/ selected = {}
  /\ (removed # {} /\ PyTruthy(operations[CMD_OPT_ZIP])) => zip_file.state = "closed"

\* the step part of C19: after the traversal the selected set stays as it is,
\* and files are removed only by the last step
LaterStepsKeepSelected ==
  /\ pc \in {"dupl", "stats", "zip", "zipping", "delete", "done", "raised"} => selected' = selected
  /\ removed' # removed => pc = "delete" /\ pc' = "done" /\ AllRootsTraversed
  /\ zip_file' # zip_file => pc \in {"zip", "zipping"} /\ removed = {}
  /\ (LinesOf("stats")' # LinesOf("stats")) => pc = "stats" /\ zip_file.state = "none"

\* C19: on a validated run the steps come in the fixed order traversal of all
\* roots, duplicates, stats, archive, delete; delete_files removes only
\* selected paths, never runs before every root has been traversed, and the
\* selected set is not modified after the traversal.
C19_StepsInFixedOrder == [](StepsInOrder) /\ [][LaterStepsKeepSelected]_vars

\* a finished run that printed the stats and then deleted the selected files
C19_Witness ==
  /\ pc = "done"
  /\ removed # {}
  /\ LinesOf("stats") # {}

\* a directory is taken from the queue and listed in this step
ListsNext == pc = "bfs" /\ q # <<>>

\* a file is printed by the traversal in this step
EmitsNext == pc = "for" /\ out' # out

\* the queue holds the directories in the order of their discovery: depths
\* never go down along it, and none is above the directory being listed
QueueInDiscoveryOrder ==
  /\ Len(bfs.qd) = Len(q)
  /\ \A i, j \in 1..Len(bfs.qd) : i < j => bfs.qd[i] <= bfs.qd[j]
  /\ \A i \in 1..Len(bfs.qd) : bfs.level <= bfs.qd[i]

\* the step part of C20
BreadthFirstSteps ==
  /\ ListsNext => /\ cur_dir' = Head(q)
                  /\ bfs'.last_list >= bfs.last_list
  /\ EmitsNext => /\ out' = Append(out, PathLine(join(cur_dir, dir_cont[name_i])))
                  /\ bfs'.last_emit >= bfs.last_emit

\* C20: within the traversal of one root the directories are taken from the
\* queue first in first out, so they are listed in non-decreasing order of
\* the depth at which they were first discovered; a file found in a directory
\* discovered at depth d is printed before every file found in a directory
\* discovered at a greater depth; files are printed in the order they are
\* discovered.
C20_BreadthFirstOrder == [](QueueInDiscoveryOrder) /\ [][BreadthFirstSteps]_vars

\* the in-archive names of the entries written so far
EntryNames == { zip_file.entries[i].name : i \in 1..Len(zip_file.entries) }

\* no two entries of the archive have one name, and written_set holds the
\* names of the entries
EntryNamesDistinct ==
  /\ \A i, j \in 1..Len(zip_file.entries) :
       zip_file.entries[i].name = zip_file.entries[j].name => i = j
  /\ written_set = EntryNames

\* the renaming loop of every file still to be written ends: each round's
\* name is longer than the one before, so written_set holds it after as many
\* rounds as it has names at most
RenamingEnds ==
  pc = "zipping" =>
    \A file \in todo :
      LoopRounds(written_set, 0, basename(file), Cardinality(written_set)) >= 0

\* zip_files returned True: every selected file is the source of one entry,
\* and every entry has a selected file as its source
EachWrittenOnce ==
  zip_file.state = "closed" =>
    /\ \A f \in selected :
         Cardinality({ i \in 1..Len(zip_file.entries) : zip_file.entries[i].file = f }) = 1
    /\ \A i \in 1..Len(zip_file.entries) : zip_file.entries[i].file \in selected

\* a step leaves the entries written before it as they are, and the name of
\* an entry it adds is the name of none of them
EarlierEntriesKept ==
  /\ Len(zip_file'.entries) >= Len(zip_file.entries)
  /\ SubSeq(zip_file'.entries, 1, Len(zip_file.entries)) = zip_file.entries
  /\ \A i \in (Len(zip_file.entries) + 1)..Len(zip_file'.entries) :
       zip_file'.entries[i].name \notin EntryNames

\* C21: for any selected set, also one with base names that are what the
\* renaming gives ("(1) f"), zip_files that succeeds has written each selected
\* file exactly once, the in-archive names are pairwise distinct, no entry
\* written earlier is overwritten, and the renaming loop of each file ends.
C21_ZipWritesEachOnceDistinct ==
  [](EntryNamesDistinct /\ RenamingEnds /\ EachWrittenOnce) /\ [][EarlierEntriesKept]_vars

\* an archive closed with five entries, of files named f and files named
\* "(1) f", one of them renamed in two rounds of the loop
C21_Witness ==
  /\ zip_file.state = "closed"
  /\ Len(zip_file.entries) = 5
  /\ \E f, g \in selected :
       f # g /\ basename(f) = nF /\ basename(g) = FormatName(1, nF)
  /\ \E i \in 1..Len(zip_file.entries) :
       /\ basename(zip_file.entries[i].file) = FormatName(1, nF)
       /\ zip_file.entries[i].name = FormatName(2, FormatName(1, FormatName(1, nF)))

====
